---- MODULE Spec2Model ----
(***************************************************************************)
(* Model of the trivia game server (server.js): the room registry `games`, *)
(* the per-socket attribute `gameCode`, the socket.io room subscriptions,  *)
(* the pending setTimeout callbacks, the live setInterval countdowns and   *)
(* one action per socket event handler / timer callback.                   *)
(***************************************************************************)
EXTENDS Integers, Sequences, FiniteSets, Bags, TLC

(***************************************************************************)
(* Bounds of the model.                                                    *)
(***************************************************************************)
\* setTimeout callbacks pending when a game may still be started
MaxDeferred == 1
\* the same, where the callbacks a reset leaves behind are studied
RoundMaxDeferred == 2
\* rooms running a game at the same time
MaxRunning == 1
\* questions served in one game before the model stops advancing it
MaxQuestionIndex == 1
RoundMaxQuestionIndex == 3
\* the same, in a game long enough to be won
GameMaxQuestionIndex == 11
\* the same, in a game that draws more questions than a grade has
BankMaxQuestionIndex == 3
\* answers of a question given to shuffleAnswers on its own
MaxAnswers == 4
\* the countdown is followed for the questions up to this number
MaxTicked == 1
\* ticks of a countdown that are followed where its end does not matter
FewTicks == 2

(***************************************************************************)
(* Program constants.                                                      *)
(***************************************************************************)
CodeLength == 8
MaxNameLength == 20
MaxMessageLength == 200
StartTime == 15
WinScore == 10

Null == "null"
\* socket.gameCode before createGame/joinGame and after handleDisconnect
NoCode == <<>>
\* game.timerInterval = null
NoTimer == 0
\* game.currentQuestion = null
NoQuestion ==
  [question |-> Null, answers |-> <<>>, correctIndex |-> -1,
   strand |-> Null, id |-> <<>>]

\* socket ids of the connections that exist during a run
Conns == {"s1", "s2"}

GradeLevels == {"6th", "7th", "8th"}

(***************************************************************************)
(* Strings are sequences of one-character strings, so that the code's      *)
(* string operations (regex test, toUpperCase, trim, substring) compute.   *)
(***************************************************************************)
Lower == <<"a","b","c","d","e","f","g","h","i","j","k","l","m",
           "n","o","p","q","r","s","t","u","v","w","x","y","z">>
Upper == <<"A","B","C","D","E","F","G","H","I","J","K","L","M",
           "N","O","P","Q","R","S","T","U","V","W","X","Y","Z">>
Digits == <<"0","1","2","3","4","5","6","7","8","9">>

Range(s) == {s[i] : i \in DOMAIN s}

AlphaNum == Range(Lower) \cup Range(Upper) \cup Range(Digits)

\* toUpperCase left out: the code is stored as typed
keepCase(s) == s

\* String.prototype.toUpperCase, one character
UpperChar(ch) ==
  IF \E i \in DOMAIN Lower : Lower[i] = ch
    THEN Upper[CHOOSE i \in DOMAIN Lower : Lower[i] = ch]
    ELSE ch

toUpperCase(s) == [i \in DOMAIN s |-> UpperChar(s[i])]

\* /^[A-Za-z0-9]{8}$/.test(code)
isValidCode(code) ==
  /\ Len(code) = CodeLength
  /\ \A i \in DOMAIN code : code[i] \in AlphaNum

WhiteSpace == {" ", "\t"}

RECURSIVE trimStart(_)
trimStart(s) ==
  IF s # <<>> /\ Head(s) \in WhiteSpace THEN trimStart(Tail(s)) ELSE s

RECURSIVE trimEnd(_)
trimEnd(s) ==
  IF s # <<>> /\ s[Len(s)] \in WhiteSpace
    THEN trimEnd(SubSeq(s, 1, Len(s) - 1))
    ELSE s

\* String.prototype.trim
trim(s) == trimEnd(trimStart(s))

\* String.prototype.substring(0, n)
substring0(s, n) == SubSeq(s, 1, IF Len(s) < n THEN Len(s) ELSE n)

(***************************************************************************)
(* Inputs the clients send.                                                *)
(***************************************************************************)
CodeLow == <<"a","b","c","d","1","2","3","4">>
CodeUp == <<"A","B","C","D","1","2","3","4">>
CodeTwo == <<"W","X","Y","Z","5","6","7","8">>
CodeShort == <<"a","b","c">>
CodeDash == <<"a","b","c","d","-","2","3","4">>

RawCodes == {CodeLow, CodeUp, CodeShort, CodeDash}
LobbyCodes == {CodeUp, CodeTwo}
GameCodes == {CodeUp}

NameAl == <<" ", "A", "l", " ">>
NameBlank == <<" ", " ">>
RawNames == {NameAl, NameBlank}
GameNames == {NameAl}

RawGrades == {"8th", "9th"}
GameGrades == {"8th"}

AnswerIndexes == {0, 1}

MsgHi == <<"h", "i", " ">>
RawMessages == {MsgHi, NameBlank}

(***************************************************************************)
(* The question bank (./data/questions.js): grade level -> strand -> list  *)
(* of {question, answers, correctIndex}.  A strand list is a sequence, the *)
(* strands of a grade are kept in their key order.                         *)
(***************************************************************************)
questions ==
  [g \in GradeLevels |->
    CASE g = "6th" ->
           << [strand |-> "ratios",
               list |-> << [question |-> "q6a", answers |-> <<"x", "y">>, correctIndex |-> 0],
                           [question |-> "q6b", answers |-> <<"x", "y">>, correctIndex |-> 1] >>] >>
      [] g = "7th" ->
           << [strand |-> "algebra",
               list |-> << [question |-> "q7a", answers |-> <<"x", "y">>, correctIndex |-> 1] >>],
              [strand |-> "geometry",
               list |-> << [question |-> "q7b", answers |-> <<"x", "y">>, correctIndex |-> 0] >>] >>
      [] OTHER ->
           << [strand |-> "functions",
               list |-> << [question |-> "q8a", answers |-> <<"x", "y">>, correctIndex |-> 0] >>] >>]

\* a bank whose grade 6th has no strand and whose grade 7th has only an
\* empty strand
questionsWithEmptyGrades ==
  [g \in GradeLevels |->
    CASE g = "6th" -> << >>
      [] g = "7th" -> << [strand |-> "algebra", list |-> << >>] >>
      [] OTHER -> questions[g]]

\* a bank without the grade 6th
questionsWithoutGrade ==
  [g \in GradeLevels \ {"6th"} |-> questions[g]]

Banks == {questions, questionsWithEmptyGrades, questionsWithoutGrade}

\* const questions = require('./data/questions.js'): the bank the server
\* has loaded
VARIABLE bank

(***************************************************************************)
(* class Game                                                              *)
(***************************************************************************)
Game(code, hostId) ==
  [code |-> code,
   hostId |-> hostId,
   players |-> <<>>,
   started |-> FALSE,
   gradeLevel |-> Null,
   currentQuestion |-> NoQuestion,
   questionIndex |-> 0,
   usedQuestions |-> {},
   questionAnswered |-> FALSE,
   timerInterval |-> NoTimer,
   timeRemaining |-> StartTime,
   winner |-> Null]

\* players is a Map: a sequence of entries in insertion order, one per key
PlayerIds(game) == {game.players[i].id : i \in DOMAIN game.players}

PlayerPos(game, socketId) ==
  CHOOSE i \in DOMAIN game.players : game.players[i].id = socketId

getPlayer(game, socketId) == game.players[PlayerPos(game, socketId)]

addPlayer(game, socketId, name) ==
  LET entry == [id |-> socketId, name |-> name, score |-> 0,
                isHost |-> (socketId = game.hostId)]
  IN IF socketId \in PlayerIds(game)
       THEN [game EXCEPT !.players[PlayerPos(game, socketId)] = entry]
       ELSE [game EXCEPT !.players = Append(@, entry)]

removePlayer(game, socketId) ==
  [game EXCEPT !.players =
     SelectSeq(@, LAMBDA p : p.id # socketId)]

getPlayerList(game) == game.players

\* the flattened list of {...q, strand, id} of a grade
RECURSIVE Flatten(_)
Flatten(strands) ==
  IF strands = <<>> THEN <<>>
  ELSE LET s == Head(strands)
       IN [idx \in DOMAIN s.list |->
             [question |-> s.list[idx].question,
              answers |-> s.list[idx].answers,
              correctIndex |-> s.list[idx].correctIndex,
              strand |-> s.strand,
              id |-> <<s.strand, idx - 1>>]]
          \o Flatten(Tail(strands))

(***************************************************************************)
(* getRandomQuestion: the set of its possible results, each the question   *)
(* returned (null without a bank for the grade; "RangeError" when the      *)
(* recursion never ends) and the usedQuestions it leaves.                  *)
(***************************************************************************)
\* getRandomQuestion without line 73: the question drawn is not recorded
getRandomQuestionUnrecorded(game) ==
  LET allQuestions == Flatten(bank[game.gradeLevel])
      available == SelectSeq(allQuestions,
                             LAMBDA q : q.id \notin game.usedQuestions)
  IN IF game.gradeLevel \notin DOMAIN bank \/ allQuestions = <<>>
       THEN {[status |-> "null", question |-> NoQuestion,
              used |-> game.usedQuestions]}
       ELSE {[status |-> "ok", question |-> available[k],
              used |-> game.usedQuestions] : k \in DOMAIN available}

getRandomQuestion(game) ==
  IF game.gradeLevel \notin DOMAIN bank
    THEN {[status |-> "null", question |-> NoQuestion, used |-> game.usedQuestions]}
    ELSE
      LET allQuestions == Flatten(bank[game.gradeLevel])
          Available(used) ==
            SelectSeq(allQuestions, LAMBDA q : q.id \notin used)
          Pick(used) ==
            {[status |-> "ok", question |-> Available(used)[k],
              used |-> used \cup {Available(used)[k].id}] :
               k \in DOMAIN Available(used)}
      IN IF Available(game.usedQuestions) # <<>>
           THEN Pick(game.usedQuestions)
           ELSE IF allQuestions # <<>>
             THEN Pick({})
             ELSE {[status |-> "RangeError", question |-> NoQuestion, used |-> {}]}

\* checkWinner with the threshold one too low
checkWinnerEarly(game) ==
  IF \E i \in DOMAIN game.players : game.players[i].score >= WinScore - 1
    THEN LET first == CHOOSE i \in DOMAIN game.players :
                        /\ game.players[i].score >= WinScore - 1
                        /\ \A j \in 1..(i - 1) : game.players[j].score < WinScore - 1
         IN game.players[first].id
    ELSE Null

\* this.players.values() in insertion order, first with score >= 10
checkWinner(game) ==
  IF \E i \in DOMAIN game.players : game.players[i].score >= WinScore
    THEN LET first == CHOOSE i \in DOMAIN game.players :
                        /\ game.players[i].score >= WinScore
                        /\ \A j \in 1..(i - 1) : game.players[j].score < WinScore
         IN game.players[first].id
    ELSE Null

(***************************************************************************)
(* shuffleAnswers: the set of possible {shuffledAnswers, newCorrectIndex}. *)
(* Indexes are the code's, from 0.                                         *)
(***************************************************************************)
Swap(objs, i, j) ==
  [objs EXCEPT ![i + 1] = objs[j + 1], ![j + 1] = objs[i + 1]]

RECURSIVE FisherYates(_, _)
FisherYates(objs, i) ==
  IF i <= 0 THEN {objs}
  ELSE UNION {FisherYates(Swap(objs, i, j), i - 1) : j \in 0..i}

findIndexCorrect(objs) ==
  IF \E k \in DOMAIN objs : objs[k].isCorrect
    THEN (CHOOSE k \in DOMAIN objs :
            /\ objs[k].isCorrect
            /\ \A m \in 1..(k - 1) : ~objs[m].isCorrect) - 1
    ELSE -1

\* shuffleAnswers returning the correct index it was given
shuffleAnswersKeepIndex(answers, correctIndex) ==
  LET answerObjs == [idx \in DOMAIN answers |->
                       [answer |-> answers[idx],
                        isCorrect |-> (idx - 1 = correctIndex)]]
  IN {[shuffledAnswers |-> [k \in DOMAIN objs |-> objs[k].answer],
       newCorrectIndex |-> correctIndex] :
        objs \in FisherYates(answerObjs, Len(answerObjs) - 1)}

shuffleAnswers(answers, correctIndex) ==
  LET answerObjs == [idx \in DOMAIN answers |->
                       [answer |-> answers[idx],
                        isCorrect |-> (idx - 1 = correctIndex)]]
  IN {[shuffledAnswers |-> [k \in DOMAIN objs |-> objs[k].answer],
       newCorrectIndex |-> findIndexCorrect(objs)] :
        objs \in FisherYates(answerObjs, Len(answerObjs) - 1)}

\* an application of shuffleAnswers on its own: its arguments and what it
\* returned
VARIABLE shuffled

(***************************************************************************)
(* State.                                                                  *)
(***************************************************************************)
VARIABLES
  games,      \* the Map games: upper-case code -> Game
  gameCode,   \* socket.gameCode of every socket
  connected,  \* the socket has not disconnected yet
  joined,     \* the socket.io rooms every socket is in (socket.join/leave)
  timeouts,   \* bag of pending setTimeout callbacks
  intervals,  \* live setInterval countdowns
  out,        \* what the last handler emitted, in order
  crashed,    \* a handler threw: the exception is uncaught, the process is gone
  fired,      \* the setTimeout callback the last step ran, if it was one,
              \* or the wrong answer it discarded
  obs         \* per room, what happened to its current question

vars == <<games, gameCode, connected, joined, timeouts, intervals, out,
          crashed, fired, obs, bank, shuffled>>

\* shuffleAnswers was not applied on its own
NoShuffle ==
  [answers |-> <<>>, correctIndex |-> -1, done |-> FALSE,
   shuffledAnswers |-> <<>>, newCorrectIndex |-> -1]

\* the server beside the bank it loaded
Serving ==
  /\ UNCHANGED bank
  /\ UNCHANGED shuffled

\* a pending callback: () => sendNextQuestion(socket.gameCode) reads the
\* socket's code when it runs, () => sendNextQuestion(gameCode) carries it.
\* origin and stale record the room it was scheduled in and whether that
\* room was reset or torn down since.
SocketTimeout(c) ==
  [kind |-> "socket", sock |-> c, code |-> NoCode,
   origin |-> gameCode[c], stale |-> FALSE]

CodeTimeout(code) ==
  [kind |-> "code", sock |-> Null, code |-> code,
   origin |-> code, stale |-> FALSE]

NoTimeout ==
  [kind |-> Null, sock |-> Null, code |-> NoCode, origin |-> NoCode,
   stale |-> FALSE]

\* the last step was a submitAnswer of socket c that was discarded as wrong
WrongAnswer(c) == [NoTimeout EXCEPT !.kind = "wrong", !.sock = c]

\* resolutions: resolution broadcasts of the current question; trig: what
\* could resolve it and happened; overlap: it replaced a question whose
\* countdown was still running; reset: the phase of the game the last
\* playAgain ended, if no question was sent since; drawn: the questions
\* drawn since the room was created or reset, each with the grade level it
\* was drawn for; members: the sockets that created or joined the room and
\* did not leave it
NoObs ==
  [resolutions |-> 0, trig |-> {}, overlap |-> FALSE, reset |-> "none",
   drawn |-> <<>>, members |-> {}]

\* where a game is: in the lobby, started without a question yet, showing an
\* open question, between two questions, or won
Phase(game) ==
  IF game.winner # Null THEN "over"
  ELSE IF ~game.started THEN "lobby"
  ELSE IF game.currentQuestion = NoQuestion THEN "starting"
  ELSE IF game.questionAnswered THEN "between"
  ELSE "question"

\* the bag with the callbacks of room `code` marked stale
MarkStale(bag, code) ==
  LET Mark(cb) == IF cb.origin = code THEN [cb EXCEPT !.stale = TRUE] ELSE cb
      Marked == {Mark(cb) : cb \in BagToSet(bag)}
  IN [m \in Marked |->
        LET From == {cb \in BagToSet(bag) : Mark(cb) = m}
            RECURSIVE Sum(_)
            Sum(S) == IF S = {} THEN 0
                      ELSE LET x == CHOOSE x \in S : TRUE
                           IN bag[x] + Sum(S \ {x})
        IN Sum(From)]

\* io.to(code): the sockets in the socket.io room
Subscribers(j, code) == {c \in Conns : code \in j[c]}

Broadcast(j, code, type, data) ==
  [type |-> type, room |-> code, rcpt |-> Subscribers(j, code), data |-> data]

\* socket.emit
Reply(c, type, data) ==
  [type |-> type, room |-> NoCode, rcpt |-> {c}, data |-> data]

Emitted(type) == {i \in DOMAIN out : out[i].type = type}

TypeDomain ==
  /\ DOMAIN games \subseteq {toUpperCase(code) : code \in RawCodes}
  /\ gameCode \in [Conns -> {toUpperCase(code) : code \in RawCodes} \cup {NoCode}]
  /\ connected \in [Conns -> BOOLEAN]
  /\ crashed \in BOOLEAN

\* the server after start, before any connection
Started ==
  /\ games = << >>
  /\ gameCode = [c \in Conns |-> NoCode]
  /\ connected = [c \in Conns |-> TRUE]
  /\ joined = [c \in Conns |-> {}]
  /\ timeouts = EmptyBag
  /\ intervals = {}
  /\ out = <<>>
  /\ crashed = FALSE
  /\ fired = NoTimeout
  /\ obs = << >>

Init ==
  /\ Started
  /\ bank = questions
  /\ shuffled = NoShuffle

(***************************************************************************)
(* Timers.                                                                 *)
(***************************************************************************)
\* a clearInterval that cancels nothing
clearNothing(ivs, code, handle) == ivs

\* clearInterval(handle) for a handle of room `code`
clearInterval(ivs, code, handle) ==
  {iv \in ivs : ~(iv.code = code /\ iv.id = handle /\ ~iv.orphan)}

\* a handle no live interval of the room has
NewHandle(ivs, code) ==
  CHOOSE h \in 1..(Cardinality(ivs) + 1) :
    /\ \A iv \in ivs : iv.code = code => iv.id # h
    /\ \A k \in 1..(h - 1) : \E iv \in ivs : iv.code = code /\ iv.id = k

\* setInterval without the clearInterval of line 338
startCountdownNoClear(ivs, game) ==
  LET h == NewHandle(ivs, game.code)
  IN [intervals |-> ivs \cup {[code |-> game.code, id |-> h, orphan |-> FALSE]},
      handle |-> h]

\* clearInterval(game.timerInterval); game.timerInterval = setInterval(...)
startCountdown(ivs, game) ==
  LET cleared == clearInterval(ivs, game.code, game.timerInterval)
      h == NewHandle(cleared, game.code)
  IN [intervals |-> cleared \cup {[code |-> game.code, id |-> h, orphan |-> FALSE]},
      handle |-> h]

(***************************************************************************)
(* Socket event handlers.                                                  *)
(***************************************************************************)
\* socket.on('createGame', (code) => ...)
CreateGame(c, code) ==
  /\ ~crashed
  /\ connected[c]
  /\ fired' = NoTimeout
  /\ Serving
  /\ IF ~isValidCode(code)
       THEN /\ out' = <<Reply(c, "error",
                         "Game code must be exactly 8 alphanumeric characters")>>
            /\ UNCHANGED <<games, gameCode, joined, obs>>
       ELSE LET upperCode == toUpperCase(code)
            IN IF upperCode \in DOMAIN games
                 THEN /\ out' = <<Reply(c, "error",
                                   "A game with this code already exists")>>
                      /\ UNCHANGED <<games, gameCode, joined, obs>>
                 ELSE /\ games' = (upperCode :> Game(upperCode, c)) @@ games
                      /\ obs' = (upperCode :> [NoObs EXCEPT !.members = {c}]) @@ obs
                      /\ joined' = [joined EXCEPT ![c] = @ \cup {upperCode}]
                      /\ gameCode' = [gameCode EXCEPT ![c] = upperCode]
                      /\ out' = <<Reply(c, "gameCreated",
                                   [code |-> upperCode, isHost |-> TRUE])>>
  /\ UNCHANGED <<connected, timeouts, intervals, crashed>>

\* socket.on('joinGame', (code) => ...)
JoinGame(c, code) ==
  /\ ~crashed
  /\ connected[c]
  /\ fired' = NoTimeout
  /\ Serving
  /\ LET upperCode == toUpperCase(code)
     IN IF upperCode \notin DOMAIN games
          THEN /\ out' = <<Reply(c, "error", "Game not found")>>
               /\ UNCHANGED <<gameCode, joined, obs>>
          ELSE IF games[upperCode].started
            THEN /\ out' = <<Reply(c, "error", "Game has already started")>>
                 /\ UNCHANGED <<gameCode, joined, obs>>
            ELSE /\ joined' = [joined EXCEPT ![c] = @ \cup {upperCode}]
                 /\ gameCode' = [gameCode EXCEPT ![c] = upperCode]
                 /\ obs' = [obs EXCEPT ![upperCode].members = @ \cup {c}]
                 /\ out' = <<Reply(c, "gameJoined",
                              [code |-> upperCode, isHost |-> FALSE])>>
  /\ UNCHANGED <<games, connected, timeouts, intervals, crashed>>

\* socket.on('setName', (name) => ...)
SetName(c, name) ==
  /\ ~crashed
  /\ connected[c]
  /\ fired' = NoTimeout
  /\ Serving
  /\ IF gameCode[c] \notin DOMAIN games
       THEN /\ out' = <<>>
            /\ UNCHANGED games
       ELSE LET trimmedName == substring0(trim(name), MaxNameLength)
            IN IF trimmedName = <<>>
                 THEN /\ out' = <<Reply(c, "error", "Please enter a valid name")>>
                      /\ UNCHANGED games
                 ELSE LET game == addPlayer(games[gameCode[c]], c, trimmedName)
                      IN /\ games' = [games EXCEPT ![gameCode[c]] = game]
                         /\ out' = <<Broadcast(joined, gameCode[c], "playerList",
                                               getPlayerList(game))>>
  /\ UNCHANGED <<gameCode, connected, joined, timeouts, intervals, crashed, obs>>

\* socket.on('startGame', (gradeLevel) => ...); maxDeferred and maxRunning
\* stop the model, not the program: the callbacks pending when a game starts
\* and the rooms running once it has
StartGame(c, gradeLevel, maxDeferred, maxRunning) ==
  /\ ~crashed
  /\ connected[c]
  /\ fired' = NoTimeout
  /\ Serving
  /\ IF gameCode[c] \notin DOMAIN games
       THEN /\ out' = <<>>
            /\ UNCHANGED <<games, timeouts>>
       ELSE IF c # games[gameCode[c]].hostId
         THEN /\ out' = <<Reply(c, "error", "Only the host can start the game")>>
              /\ UNCHANGED <<games, timeouts>>
         ELSE IF gradeLevel \notin GradeLevels
           THEN /\ out' = <<Reply(c, "error", "Invalid grade level")>>
                /\ UNCHANGED <<games, timeouts>>
           ELSE /\ BagCardinality(timeouts) < maxDeferred
                /\ Cardinality({r \in DOMAIN games \ {gameCode[c]} :
                                  games[r].started}) < maxRunning
                /\ games' = [games EXCEPT ![gameCode[c]] =
                               [@ EXCEPT !.gradeLevel = gradeLevel,
                                         !.started = TRUE]]
                /\ out' = <<Broadcast(joined, gameCode[c], "gameStarted",
                                      [gradeLevel |-> gradeLevel])>>
                /\ timeouts' = timeouts (+) SetToBag({SocketTimeout(c)})
  /\ UNCHANGED <<gameCode, connected, joined, intervals, crashed, obs>>

\* line 187 taking every answer for the correct one
matchesAny(answerIndex, question) == TRUE

\* line 187: answerIndex === game.currentQuestion.correctIndex
matches(answerIndex, question) == answerIndex = question.correctIndex

\* line 182 without the questionAnswered test
acceptsAnswersNoLatch(game) == game.started

\* line 182: the room takes answers
acceptsAnswers(game) == game.started /\ ~game.questionAnswered

\* a correct answer of a registered player for the question the room shows
CorrectSubmission(c, answerIndex) ==
  /\ gameCode[c] \in DOMAIN games
  /\ games[gameCode[c]].started
  /\ games[gameCode[c]].currentQuestion.question # Null
  /\ c \in PlayerIds(games[gameCode[c]])
  /\ answerIndex = games[gameCode[c]].currentQuestion.correctIndex

\* a wrong answer of a registered player for the open question of the
\* room: the submission that falls through the test of line 187
WrongSubmission(c, answerIndex) ==
  /\ gameCode[c] \in DOMAIN games
  /\ acceptsAnswers(games[gameCode[c]])
  /\ games[gameCode[c]].currentQuestion.question # Null
  /\ c \in PlayerIds(games[gameCode[c]])
  /\ ~matches(answerIndex, games[gameCode[c]].currentQuestion)

\* socket.on('submitAnswer', (answerIndex) => ...)
SubmitAnswer(c, answerIndex) ==
  /\ ~crashed
  /\ connected[c]
  /\ fired' = IF WrongSubmission(c, answerIndex) THEN WrongAnswer(c) ELSE NoTimeout
  /\ Serving
  /\ IF gameCode[c] \notin DOMAIN games
       THEN /\ out' = <<>>
            /\ UNCHANGED <<games, timeouts, intervals, crashed, obs>>
       ELSE
         LET code == gameCode[c]
             game == games[code]
             seen == IF CorrectSubmission(c, answerIndex)
                       THEN [obs EXCEPT ![code].trig = @ \cup {"submit"}]
                       ELSE obs
         IN IF ~acceptsAnswers(game) \/ c \notin PlayerIds(game)
              THEN /\ out' = <<>>
                   /\ obs' = seen
                   /\ UNCHANGED <<games, timeouts, intervals, crashed>>
              ELSE IF game.currentQuestion.question = Null
                \* game.currentQuestion.correctIndex of null: TypeError
                THEN /\ crashed' = TRUE
                     /\ out' = <<>>
                     /\ UNCHANGED <<games, timeouts, intervals, obs>>
                ELSE IF ~matches(answerIndex, game.currentQuestion)
                  THEN /\ out' = <<>>
                       /\ UNCHANGED <<games, timeouts, intervals, crashed, obs>>
                  ELSE
                    LET pos == PlayerPos(game, c)
                        scored == [game EXCEPT !.questionAnswered = TRUE,
                                               !.players[pos].score = @ + 1]
                        gameWinner == checkWinner(scored)
                        result == Broadcast(joined, code, "questionResult",
                                    [winnerId |-> c,
                                     winnerName |-> scored.players[pos].name,
                                     correctIndex |-> game.currentQuestion.correctIndex,
                                     scores |-> getPlayerList(scored)])
                    IN /\ intervals' = clearInterval(intervals, code, game.timerInterval)
                       /\ obs' = [seen EXCEPT ![code].resolutions = @ + 1]
                       /\ UNCHANGED crashed
                       /\ IF gameWinner # Null
                            THEN /\ games' = [games EXCEPT ![code] =
                                                [scored EXCEPT !.winner = gameWinner]]
                                 /\ out' = <<result,
                                             Broadcast(joined, code, "gameOver",
                                               [winner |-> gameWinner,
                                                scores |-> getPlayerList(scored)])>>
                                 /\ UNCHANGED timeouts
                            ELSE /\ games' = [games EXCEPT ![code] = scored]
                                 /\ out' = <<result>>
                                 /\ timeouts' = timeouts (+) SetToBag({SocketTimeout(c)})
  /\ UNCHANGED <<gameCode, connected, joined>>

\* socket.on('chatMessage', (message) => ...)
ChatMessage(c, message) ==
  /\ ~crashed
  /\ connected[c]
  /\ fired' = NoTimeout
  /\ Serving
  /\ IF \/ gameCode[c] \notin DOMAIN games
        \/ c \notin PlayerIds(games[gameCode[c]])
        \/ substring0(trim(message), MaxMessageLength) = <<>>
       THEN out' = <<>>
       ELSE out' = <<Broadcast(joined, gameCode[c], "chatMessage",
                       [playerId |-> c,
                        playerName |-> getPlayer(games[gameCode[c]], c).name,
                        message |-> substring0(trim(message), MaxMessageLength)])>>
  /\ UNCHANGED <<games, gameCode, connected, joined, timeouts, intervals,
                 crashed, obs>>

\* the reset of playAgain without lines 255-258
resetGameKeepScores(game) ==
  [game EXCEPT !.started = FALSE,
               !.currentQuestion = NoQuestion,
               !.questionIndex = 0,
               !.usedQuestions = {},
               !.questionAnswered = FALSE,
               !.winner = Null]

\* lines 246-258: the reset of playAgain
resetGame(game) ==
  [game EXCEPT !.started = FALSE,
               !.currentQuestion = NoQuestion,
               !.questionIndex = 0,
               !.usedQuestions = {},
               !.questionAnswered = FALSE,
               !.winner = Null,
               !.players = [i \in DOMAIN @ |-> [@[i] EXCEPT !.score = 0]]]

\* socket.on('playAgain', () => ...)
PlayAgain(c) ==
  /\ ~crashed
  /\ connected[c]
  /\ fired' = NoTimeout
  /\ Serving
  /\ IF gameCode[c] \notin DOMAIN games
       THEN /\ out' = <<>>
            /\ UNCHANGED <<games, timeouts, intervals, obs>>
       ELSE IF c # games[gameCode[c]].hostId
         THEN /\ out' = <<Reply(c, "error", "Only the host can restart the game")>>
              /\ UNCHANGED <<games, timeouts, intervals, obs>>
         ELSE LET code == gameCode[c]
                  game == resetGame(games[code])
              IN /\ games' = [games EXCEPT ![code] = game]
                 /\ intervals' = clearInterval(intervals, code,
                                               games[code].timerInterval)
                 /\ timeouts' = MarkStale(timeouts, code)
                 /\ obs' = [obs EXCEPT ![code] =
                              [NoObs EXCEPT !.reset = Phase(games[code]),
                                            !.members = obs[code].members]]
                 /\ out' = <<Broadcast(joined, code, "gameReset",
                                       getPlayerList(game))>>
  /\ UNCHANGED <<gameCode, connected, joined, crashed>>

\* function handleDisconnect(socket), with the socket.io rooms `j` the
\* sockets are in when it runs
handleDisconnect(c, j) ==
  IF gameCode[c] \notin DOMAIN games
    THEN /\ out' = <<>>
         /\ joined' = j
         /\ UNCHANGED <<games, gameCode, timeouts, intervals, obs>>
    ELSE LET code == gameCode[c]
             game == removePlayer(games[code], c)
             left == [j EXCEPT ![c] = @ \ {code}]
         IN /\ joined' = left
            /\ gameCode' = [gameCode EXCEPT ![c] = NoCode]
            /\ IF c = game.hostId
                 THEN /\ intervals' =
                           {IF iv.code = code THEN [iv EXCEPT !.orphan = TRUE] ELSE iv :
                              iv \in clearInterval(intervals, code, game.timerInterval)}
                      /\ out' = <<Broadcast(left, code, "hostLeft", <<>>)>>
                      /\ games' = [r \in DOMAIN games \ {code} |-> games[r]]
                      /\ obs' = [r \in DOMAIN obs \ {code} |-> obs[r]]
                      /\ timeouts' = MarkStale(timeouts, code)
                 ELSE /\ games' = [games EXCEPT ![code] = game]
                      /\ out' = <<Broadcast(left, code, "playerList",
                                            getPlayerList(game))>>
                      /\ obs' = [obs EXCEPT ![code].members = @ \ {c}]
                      /\ UNCHANGED <<timeouts, intervals>>

\* socket.on('leaveGame', () => ...)
LeaveGame(c) ==
  /\ ~crashed
  /\ connected[c]
  /\ fired' = NoTimeout
  /\ Serving
  /\ handleDisconnect(c, joined)
  /\ UNCHANGED <<connected, crashed>>

\* socket.on('disconnect', () => ...): socket.io has taken the socket out of
\* its rooms before the handler runs
Disconnect(c) ==
  /\ ~crashed
  /\ connected[c]
  /\ fired' = NoTimeout
  /\ Serving
  /\ connected' = [connected EXCEPT ![c] = FALSE]
  /\ handleDisconnect(c, [joined EXCEPT ![c] = {}])
  /\ UNCHANGED crashed

(***************************************************************************)
(* Timer callbacks.                                                        *)
(***************************************************************************)
\* line 315: sendNextQuestion goes on
advances(code) ==
  /\ code \in DOMAIN games
  /\ games[code].started
  /\ games[code].winner = Null

\* function sendNextQuestion(gameCode)
sendNextQuestion(code) ==
  IF ~advances(code)
    THEN /\ out' = <<>>
         /\ UNCHANGED <<games, intervals, crashed, obs>>
    ELSE
      \E drawn \in getRandomQuestion(games[code]) :
        IF drawn.status # "ok"
          \* RangeError of the endless recursion, or TypeError of
          \* game.currentQuestion.answers of null
          THEN /\ crashed' = TRUE
               /\ out' = <<>>
               /\ UNCHANGED <<games, intervals, obs>>
          ELSE
            \E sh \in shuffleAnswers(drawn.question.answers,
                                     drawn.question.correctIndex) :
              LET timer == startCountdown(intervals, games[code])
                  game == [games[code] EXCEPT
                             !.questionAnswered = FALSE,
                             !.usedQuestions = drawn.used,
                             !.currentQuestion =
                                [drawn.question EXCEPT
                                   !.answers = sh.shuffledAnswers,
                                   !.correctIndex = sh.newCorrectIndex],
                             !.questionIndex = @ + 1,
                             !.timeRemaining = StartTime,
                             !.timerInterval = timer.handle]
              IN /\ games' = [games EXCEPT ![code] = game]
                 /\ intervals' = timer.intervals
                 /\ obs' = [obs EXCEPT ![code] =
                              [NoObs EXCEPT
                                 !.overlap = (\E iv \in intervals : iv.code = code),
                                 !.members = obs[code].members,
                                 !.drawn = Append(obs[code].drawn,
                                             [grade |-> game.gradeLevel,
                                              id |-> game.currentQuestion.id])]]
                 /\ out' = <<Broadcast(joined, code, "newQuestion",
                               [question |-> game.currentQuestion.question,
                                answers |-> game.currentQuestion.answers,
                                strand |-> game.currentQuestion.strand,
                                questionNumber |-> game.questionIndex])>>
                 /\ UNCHANGED crashed

\* a setTimeout callback of startGame, submitAnswer or the countdown runs;
\* maxIndex stops the model, not the program
FireTimeout(cb, maxIndex) ==
  /\ ~crashed
  /\ cb \in BagToSet(timeouts)
  /\ LET code == IF cb.kind = "socket" THEN gameCode[cb.sock] ELSE cb.code
     IN /\ advances(code) => games[code].questionIndex < maxIndex
        /\ sendNextQuestion(code)
  /\ timeouts' = timeouts (-) SetToBag({cb})
  /\ fired' = cb
  /\ Serving
  /\ UNCHANGED <<gameCode, connected, joined>>

\* the setInterval callback of sendNextQuestion, lines 339-359; the model
\* follows the countdown of the questions up to number maxTicked, for
\* maxTicks ticks
Tick(iv, maxTicked, maxTicks) ==
  /\ ~crashed
  /\ iv \in intervals
  /\ ~iv.orphan
  /\ games[iv.code].questionIndex <= maxTicked
  /\ StartTime - games[iv.code].timeRemaining < maxTicks
  /\ fired' = NoTimeout
  /\ Serving
  /\ LET code == iv.code
         game == [games[code] EXCEPT !.timeRemaining = @ - 1]
         update == Broadcast(joined, code, "timerUpdate", game.timeRemaining)
     IN IF game.timeRemaining > 0
          THEN /\ games' = [games EXCEPT ![code] = game]
               /\ out' = <<update>>
               /\ UNCHANGED <<timeouts, intervals, obs>>
          ELSE /\ intervals' = clearInterval(intervals, code, game.timerInterval)
               /\ IF game.questionAnswered
                    THEN /\ games' = [games EXCEPT ![code] = game]
                         /\ out' = <<update>>
                         /\ obs' = [obs EXCEPT ![code].trig = @ \cup {"expiry"}]
                         /\ UNCHANGED timeouts
                    ELSE /\ games' = [games EXCEPT ![code] =
                                        [game EXCEPT !.questionAnswered = TRUE]]
                         /\ out' = <<update,
                                     Broadcast(joined, code, "timeUp",
                                       [correctIndex |-> game.currentQuestion.correctIndex,
                                        scores |-> getPlayerList(game)])>>
                         /\ obs' = [obs EXCEPT ![code].trig = @ \cup {"expiry"},
                                               ![code].resolutions = @ + 1]
                         /\ timeouts' = timeouts (+) SetToBag({CodeTimeout(code)})
  /\ UNCHANGED <<gameCode, connected, crashed>>
  /\ UNCHANGED joined

(***************************************************************************)
(* The server: any handler or callback, while the process lives.  The      *)
(* clients' inputs come from the sets given.                               *)
(***************************************************************************)
Server(conns, codes, names, grades, messages, maxDeferred, maxRunning, maxIndex, maxTicked, maxTicks) ==
  \/ \E c \in conns, code \in codes : CreateGame(c, code)
  \/ \E c \in conns, code \in codes : JoinGame(c, code)
  \/ \E c \in conns, name \in names : SetName(c, name)
  \/ \E c \in conns, gradeLevel \in grades :
       StartGame(c, gradeLevel, maxDeferred, maxRunning)
  \/ \E c \in conns, answerIndex \in AnswerIndexes : SubmitAnswer(c, answerIndex)
  \/ \E c \in conns, message \in messages : ChatMessage(c, message)
  \/ \E c \in conns : PlayAgain(c)
  \/ \E c \in conns : LeaveGame(c)
  \/ \E c \in conns : Disconnect(c)
  \/ \E cb \in BagToSet(timeouts) : FireTimeout(cb, maxIndex)
  \/ \E iv \in intervals : Tick(iv, maxTicked, maxTicks)

\* what the program holds: the rest of the state records what it did
program == <<games, gameCode, connected, joined, timeouts, intervals, crashed>>

\* a step that changes what the program holds
Effective == program' # program

\* the server without the steps that change nothing it holds (chatMessage
\* never does: it is not among them)
Changes(conns, codes, names, grades, maxDeferred, maxRunning, maxIndex, maxTicked, maxTicks) ==
  \/ \E c \in conns, code \in codes : CreateGame(c, code) /\ Effective
  \/ \E c \in conns, code \in codes : JoinGame(c, code) /\ Effective
  \/ \E c \in conns, name \in names : SetName(c, name) /\ Effective
  \/ \E c \in conns, gradeLevel \in grades :
       StartGame(c, gradeLevel, maxDeferred, maxRunning) /\ Effective
  \/ \E c \in conns, answerIndex \in AnswerIndexes :
       SubmitAnswer(c, answerIndex) /\ Effective
  \/ \E c \in conns : PlayAgain(c) /\ Effective
  \/ \E c \in conns : LeaveGame(c) /\ Effective
  \/ \E c \in conns : Disconnect(c) /\ Effective
  \/ \E cb \in BagToSet(timeouts) : FireTimeout(cb, maxIndex) /\ Effective
  \/ \E iv \in intervals : Tick(iv, maxTicked, maxTicks) /\ Effective

\* every handler with valid and invalid inputs, one room code, the first
\* ticks of a countdown
Next ==
  Server(Conns, RawCodes, RawNames, RawGrades, RawMessages,
         MaxDeferred, MaxRunning, MaxQuestionIndex, MaxTicked, FewTicks)

Spec == Init /\ [][Next]_vars

\* the same with one client, whole countdowns and two callbacks pending
SoloNext ==
  Server({"s1"}, RawCodes, RawNames, RawGrades, RawMessages,
         RoundMaxDeferred, MaxRunning, RoundMaxQuestionIndex, RoundMaxQuestionIndex,
         StartTime)

SoloSpec == Init /\ [][SoloNext]_vars

\* the rounds of one room
RoundNext ==
  Changes(Conns, GameCodes, GameNames, GameGrades,
          RoundMaxDeferred, MaxRunning, RoundMaxQuestionIndex, MaxTicked, StartTime)

RoundSpec == Init /\ [][RoundNext]_vars

\* one room, a game long enough to be won
GameNext ==
  Changes(Conns, GameCodes, GameNames, GameGrades,
          MaxDeferred, MaxRunning, GameMaxQuestionIndex, MaxTicked, StartTime)

GameSpec == Init /\ [][GameNext]_vars

\* one client, two room codes
LobbyNext ==
  Changes({"s1"}, LobbyCodes, GameNames, GameGrades,
          MaxDeferred, MaxRunning, MaxQuestionIndex, MaxTicked, FewTicks)

LobbySpec == Init /\ [][LobbyNext]_vars

\* grade levels with more than one question in the bank
BankGrades == {"6th", "7th"}

\* the server with any of the banks, one room
BankInit ==
  /\ Started
  /\ bank \in Banks
  /\ shuffled = NoShuffle

BankNext ==
  Changes(Conns, GameCodes, GameNames, BankGrades,
          MaxDeferred, MaxRunning, BankMaxQuestionIndex, MaxTicked, FewTicks)

BankSpec == BankInit /\ [][BankNext]_vars

\* answer lists, with and without duplicate strings
AnswerLists ==
  UNION {[1..n -> {"x", "y", "z"}] : n \in 1..MaxAnswers}

\* shuffleAnswers(answers, correctIndex) is about to be called
ShuffleInit ==
  /\ Started
  /\ bank = questions
  /\ \E answers \in AnswerLists, correctIndex \in 0..(MaxAnswers - 1) :
       /\ correctIndex < Len(answers)
       /\ shuffled = [NoShuffle EXCEPT !.answers = answers,
                                       !.correctIndex = correctIndex]

\* the call returns
Shuffle ==
  /\ ~shuffled.done
  /\ \E sh \in shuffleAnswers(shuffled.answers, shuffled.correctIndex) :
       shuffled' = [shuffled EXCEPT !.done = TRUE,
                                    !.shuffledAnswers = sh.shuffledAnswers,
                                    !.newCorrectIndex = sh.newCorrectIndex]
  /\ UNCHANGED <<games, gameCode, connected, joined, timeouts, intervals, out,
                 crashed, fired, obs, bank>>

ShuffleNext == Shuffle

ShuffleSpec == ShuffleInit /\ [][ShuffleNext]_vars

(***************************************************************************)
(* Properties.                                                             *)
(***************************************************************************)
ErrorReply(c, message) ==
  /\ Len(out') = 1
  /\ out'[1].type = "error"
  /\ out'[1].rcpt = {c}
  /\ out'[1].data = message

\* C1: for the question a room shows, at most one resolution broadcast
\* (questionResult or timeUp) is emitted; as soon as a correct submission
\* of a registered player or the countdown reaching zero has happened for
\* it, exactly one has been emitted, and the latch questionAnswered is set
\* exactly when one has.
C1_ExactlyOneResolution ==
  \A code \in DOMAIN games :
    /\ obs[code].resolutions <= 1
    /\ obs[code].trig # {} => obs[code].resolutions = 1
    /\ games[code].questionAnswered <=> obs[code].resolutions = 1

\* both the countdown reached zero and a correct answer arrived for one
\* question
C1_BothTriggered ==
  \E code \in DOMAIN games :
    /\ obs[code].trig = {"submit", "expiry"}
    /\ obs[code].resolutions = 1

\* the room of socket c takes no answer
Closed(c) ==
  /\ gameCode[c] \in DOMAIN games
  /\ \/ ~games[gameCode[c]].started
     \/ games[gameCode[c]].currentQuestion.question = Null
     \/ games[gameCode[c]].questionAnswered

\* C3: a submitAnswer for a room that is not started, has no current
\* question or whose question is answered changes nothing, emits nothing
\* and does not end the process.
C3_SubmitIgnored ==
  \A c \in Conns, answerIndex \in AnswerIndexes :
    (~crashed /\ connected[c] /\ Closed(c)) =>
      /\ ENABLED SubmitAnswer(c, answerIndex)
      /\ ~ENABLED (/\ SubmitAnswer(c, answerIndex)
                   /\ ~(program' = program /\ out' = <<>>))

EightAlphaNumeric(code) ==
  /\ Len(code) = 8
  /\ \A i \in 1..Len(code) :
       \E k \in 1..26 : code[i] \in {Lower[k], Upper[k]} \cup Range(Digits)

SameIgnoringCase(a, b) ==
  /\ Len(a) = Len(b)
  /\ \A i \in 1..Len(a) :
       \/ a[i] = b[i]
       \/ \E k \in 1..26 : {a[i], b[i]} = {Lower[k], Upper[k]}

\* C10: createGame with a code that is not 8 alphanumeric characters is
\* answered with the invalid-code error, createGame with the code of a
\* registered room in any letter case with the duplicate-code error, and
\* both leave the registry, the rooms and the requester's association as
\* they were; no two registered codes differ in letter case only.
C10_CreateGameRejects ==
  /\ \A r1, r2 \in DOMAIN games : SameIgnoringCase(r1, r2) => r1 = r2
  /\ \A c \in Conns, code \in RawCodes :
       (~crashed /\ connected[c]) =>
         /\ ENABLED CreateGame(c, code)
         /\ ~EightAlphaNumeric(code) =>
              ~ENABLED (/\ CreateGame(c, code)
                        /\ ~(/\ ErrorReply(c, "Game code must be exactly 8 alphanumeric characters")
                             /\ program' = program))
         /\ (EightAlphaNumeric(code)
               /\ \E r \in DOMAIN games : SameIgnoringCase(r, code)) =>
              ~ENABLED (/\ CreateGame(c, code)
                        /\ ~(/\ ErrorReply(c, "A game with this code already exists")
                             /\ program' = program))

\* a socket in no room was refused the code of a registered room
C10_DuplicateRefused ==
  \E c \in Conns :
    /\ Len(out) = 1
    /\ out[1].type = "error"
    /\ out[1].rcpt = {c}
    /\ out[1].data = "A game with this code already exists"
    /\ gameCode[c] = NoCode
    /\ games # << >>

\* the broadcasts of a type the last step sent to a room
Sent(o, type, code) ==
  {i \in DOMAIN o : o[i].type = type /\ o[i].room = code}

Score(game, socketId) == getPlayer(game, socketId).score

\* C2: no setTimeout callback scheduled in a room before its reset or
\* teardown broadcasts a newQuestion when it runs.
C2_NoStaleAdvance ==
  ~(fired.stale /\ Emitted("newQuestion") # {})

\* C4: no room is registered whose host connection has disconnected.
C4_HostGoneRoomGone ==
  \A code \in DOMAIN games : connected[games[code].hostId]

\* C5: every room has at most one live countdown, the one its
\* timerInterval names, and no countdown outlives its room.
C5_OneTimerPerRoom ==
  /\ \A iv \in intervals :
       /\ ~iv.orphan
       /\ iv.code \in DOMAIN games
       /\ iv.id = games[iv.code].timerInterval
  /\ \A iv1, iv2 \in intervals : iv1.code = iv2.code => iv1 = iv2

\* a question replaced one whose countdown was running, and its own runs
C5_CountdownRestarted ==
  \E code \in DOMAIN games :
    /\ obs[code].overlap
    /\ \E iv \in intervals : iv.code = code

InRoom(c, code) ==
  games[code].hostId = c \/ c \in PlayerIds(games[code])

\* C6: no connection is host of or player in two rooms.
C6_OneRoomPerConnection ==
  \A c \in Conns : \A r1, r2 \in DOMAIN games :
    (InRoom(c, r1) /\ InRoom(c, r2)) => r1 = r2

\* the score of the submitter in the questionResult broadcast i
ResultScore(o, i) ==
  LET scores == o[i].data.scores
      pos == CHOOSE k \in DOMAIN scores : scores[k].id = o[i].data.winnerId
  IN scores[pos].score

WinnerRecorded ==
  \A code \in DOMAIN games :
    /\ \A i \in Sent(out, "questionResult", code) :
         IF ResultScore(out, i) = WinScore
           THEN /\ games[code].winner = out[i].data.winnerId
                /\ \E j \in Sent(out, "gameOver", code) :
                     out[j].data.winner = out[i].data.winnerId
           ELSE /\ games[code].winner = Null
                /\ Sent(out, "gameOver", code) = {}
    /\ Sent(out, "gameOver", code) # {} => Sent(out, "questionResult", code) # {}
    /\ Sent(out, "timeUp", code) # {} =>
         /\ games[code].winner = Null
         /\ Sent(out, "gameOver", code) = {}
    /\ \A i \in DOMAIN games[code].players : games[code].players[i].score <= WinScore

WinnerSetByGameOver ==
  \A code \in DOMAIN games' :
    (/\ games'[code].winner # Null
     /\ code \in DOMAIN games => games[code].winner # games'[code].winner)
      => Sent(out', "gameOver", code) # {}

\* C7: a questionResult whose submitter reaches the score 10 comes with a
\* gameOver naming that submitter and records it as the room's winner; a
\* questionResult with a lower score and a timeUp come with no gameOver and
\* leave the winner unset; no gameOver is sent and no winner is set in any
\* other way.
C7_WinnerThreshold ==
  []WinnerRecorded /\ [][WinnerSetByGameOver]_vars

\* a game of two players was won by the second to register
C7_GameWon ==
  \E code \in DOMAIN games :
    /\ Sent(out, "gameOver", code) # {}
    /\ Len(games[code].players) = 2
    /\ games[code].winner = games[code].players[2].id
    /\ games[code].players[2].score = WinScore

\* C8: once a room has a winner, a step other than playAgain sends no
\* newQuestion, questionResult, timeUp or gameOver to it, leaves it without
\* a countdown and changes no player's score.
C8_StoppedAfterWinner ==
  [][\A code \in (DOMAIN games) \cap (DOMAIN games') :
       (games[code].winner # Null /\ Sent(out', "gameReset", code) = {}) =>
         /\ \A type \in {"newQuestion", "questionResult", "timeUp", "gameOver"} :
              Sent(out', type, code) = {}
         /\ \A iv \in intervals' : iv.code # code
         /\ \A c \in PlayerIds(games[code]) \cap PlayerIds(games'[code]) :
              Score(games'[code], c) = Score(games[code], c)]_vars

\* the part of C8 about the round engine: the same without the scores
RoundEngineStopped ==
  [][\A code \in (DOMAIN games) \cap (DOMAIN games') :
       (games[code].winner # Null /\ Sent(out', "gameReset", code) = {}) =>
         /\ \A type \in {"newQuestion", "questionResult", "timeUp", "gameOver"} :
              Sent(out', type, code) = {}
         /\ \A iv \in intervals' : iv.code # code
         /\ \A c \in PlayerIds(games[code]) \cap PlayerIds(games'[code]) :
              Score(games'[code], c) <= Score(games[code], c)]_vars

\* the fields playAgain resets
Reset(game) ==
  /\ game.currentQuestion = NoQuestion
  /\ game.questionIndex = 0
  /\ game.usedQuestions = {}
  /\ ~game.questionAnswered
  /\ game.winner = Null
  /\ \A i \in DOMAIN game.players : game.players[i].score = 0

Roster(game) ==
  [i \in DOMAIN game.players |->
     <<game.players[i].id, game.players[i].name, game.players[i].isHost>>]

ResetMidQuestion ==
  \E code \in DOMAIN games :
    /\ Sent(out, "gameReset", code) # {}
    /\ obs[code].reset = "question"

\* playAgain has reset a room between two questions
ResetBetweenQuestions ==
  \E code \in DOMAIN games :
    /\ Sent(out, "gameReset", code) # {}
    /\ obs[code].reset = "between"

\* C11: while a room stays started, no step changes its gradeLevel.
C11_GradeLevelFixed ==
  [][\A code \in (DOMAIN games) \cap (DOMAIN games') :
       (games[code].started /\ games'[code].started) =>
         games'[code].gradeLevel = games[code].gradeLevel]_vars

\* the ids of the questions the bank has for a grade level
PoolIds(gradeLevel) ==
  IF gradeLevel \in DOMAIN bank
    THEN {Flatten(bank[gradeLevel])[k].id : k \in DOMAIN Flatten(bank[gradeLevel])}
    ELSE {}

\* the ids drawn in a room since its used set was last cleared: since the
\* last draw that found its pool used up, or else since the room was
\* created or reset
RECURSIVE SinceClear(_)
SinceClear(drawn) ==
  IF drawn = <<>> THEN {}
  ELSE LET last == drawn[Len(drawn)]
           before == SinceClear(SubSeq(drawn, 1, Len(drawn) - 1))
       IN IF PoolIds(last.grade) \subseteq before
            THEN {last.id}
            ELSE before \cup {last.id}

DrawsRecorded ==
  \A code \in DOMAIN games :
    LET drawn == obs[code].drawn
        first == IF drawn = <<>> THEN {}
                 ELSE {k \in 1..Len(drawn) :
                         /\ k <= Cardinality(PoolIds(drawn[1].grade))
                         /\ \A m \in 1..k : drawn[m].grade = drawn[1].grade}
    IN /\ games[code].usedQuestions = SinceClear(drawn)
       /\ \A i, j \in first : i # j => drawn[i].id # drawn[j].id
       /\ \A k \in DOMAIN drawn : drawn[k].id \in PoolIds(drawn[k].grade)

DrawsUnused ==
  \A code \in (DOMAIN games) \cap (DOMAIN games') :
    LET used == games[code].usedQuestions
        drawn == games'[code].currentQuestion.id
    IN IF Sent(out', "newQuestion", code) # {}
         THEN IF PoolIds(games[code].gradeLevel) \subseteq used
                THEN games'[code].usedQuestions = {drawn}
                ELSE /\ drawn \notin used
                     /\ games'[code].usedQuestions = used \cup {drawn}
         ELSE \/ games'[code].usedQuestions = used
              \/ /\ games'[code].usedQuestions = {}
                 /\ Sent(out', "gameReset", code) # {}

\* C12: the used set of a room is the set of ids drawn since it was last
\* cleared; a draw returns an id of the grade's pool that is not in the
\* used set, unless the whole pool is used, and then the set is cleared
\* first; only such a draw and playAgain clear it; the first N draws of a
\* game from a pool of N questions are pairwise distinct.
C12_NoRepeatUntilExhausted ==
  []DrawsRecorded /\ [][DrawsUnused]_vars

\* a game drew the two questions of its grade and then one of them again
C12_PoolExhausted ==
  \E code \in DOMAIN games :
    LET drawn == obs[code].drawn
    IN /\ Len(drawn) = 3
       /\ \A k \in 1..3 : drawn[k].grade = drawn[1].grade
       /\ Cardinality(PoolIds(drawn[1].grade)) = 2
       /\ drawn[1].id # drawn[2].id
       /\ drawn[3].id \in {drawn[1].id, drawn[2].id}
       /\ games[code].usedQuestions = {drawn[3].id}

Count(seq, a) == Cardinality({k \in DOMAIN seq : seq[k] = a})

\* C13: what shuffleAnswers returns is a permutation of the answers it was
\* given, with the same number of copies of every string, and the answer at
\* the correct index returned is the answer at the correct index given;
\* before it returns, every permutation of the answers is a possible
\* result, with the correct index where that permutation put it.
C13_ShufflePermutes ==
  /\ shuffled.done =>
       /\ Len(shuffled.shuffledAnswers) = Len(shuffled.answers)
       /\ \A a \in Range(shuffled.answers) \cup Range(shuffled.shuffledAnswers) :
            Count(shuffled.shuffledAnswers, a) = Count(shuffled.answers, a)
       /\ shuffled.newCorrectIndex \in 0..(Len(shuffled.answers) - 1)
       /\ shuffled.shuffledAnswers[shuffled.newCorrectIndex + 1] =
            shuffled.answers[shuffled.correctIndex + 1]
  /\ (~shuffled.done /\ shuffled.answers # <<>>) =>
       \A p \in Permutations(DOMAIN shuffled.answers) :
         ENABLED (/\ Shuffle
                  /\ shuffled'.shuffledAnswers =
                       [k \in DOMAIN shuffled.answers |-> shuffled.answers[p[k]]]
                  /\ p[shuffled'.newCorrectIndex + 1] = shuffled.correctIndex + 1)

\* four answers with a duplicate of the correct one were shuffled; the
\* correct one moved to where its duplicate was not
C13_ShuffledWithDuplicates ==
  /\ shuffled.done
  /\ shuffled.answers = <<"x", "y", "x", "z">>
  /\ shuffled.correctIndex = 2
  /\ shuffled.shuffledAnswers = <<"y", "x", "z", "x">>
  /\ shuffled.newCorrectIndex = 3

\* C14: a newQuestion is sent to a room that showed a question only after
\* that question got its resolution broadcast, exactly one, and carries the
\* next questionNumber.
C14_RoundOrder ==
  [][\A code \in (DOMAIN games) \cap (DOMAIN games') :
       \A i \in Sent(out', "newQuestion", code) :
         /\ games[code].currentQuestion # NoQuestion =>
              /\ obs[code].resolutions = 1
              /\ games[code].questionAnswered
         /\ out'[i].data.questionNumber = games[code].questionIndex + 1]_vars

\* the room a pending callback will advance when it runs
Target(cb) == IF cb.kind = "socket" THEN gameCode[cb.sock] ELSE cb.code

\* C15: while the process lives, a started room without winner has a live
\* countdown or a pending callback that will advance it.
C15_NeverStalls ==
  \A code \in DOMAIN games :
    (~crashed /\ games[code].started /\ games[code].winner = Null) =>
      \/ \E iv \in intervals : iv.code = code
      \/ \E cb \in BagToSet(timeouts) : Target(cb) = code

\* the room of socket c shows a question nobody resolved yet
Open(c) ==
  /\ gameCode[c] \in DOMAIN games
  /\ games[gameCode[c]].started
  /\ games[gameCode[c]].currentQuestion # NoQuestion
  /\ ~games[gameCode[c]].questionAnswered

\* C16: while a room's question is open, a submitAnswer with an index
\* other than the correct one changes nothing the server holds (scores,
\* latch, countdown, pending callbacks) and emits nothing, and every player
\* of the room can then resolve the question with the correct index.
C16_WrongAnswerIgnored ==
  \A c \in Conns, answerIndex \in AnswerIndexes :
    (/\ ~crashed /\ connected[c] /\ Open(c)
     /\ answerIndex # games[gameCode[c]].currentQuestion.correctIndex) =>
      /\ ENABLED SubmitAnswer(c, answerIndex)
      /\ ~ENABLED (/\ SubmitAnswer(c, answerIndex)
                   /\ ~(program' = program /\ out' = <<>>))
      /\ \A p \in PlayerIds(games[gameCode[c]]) :
           (connected[p] /\ gameCode[p] = gameCode[c]) =>
             ENABLED (/\ SubmitAnswer(p, games[gameCode[c]].currentQuestion.correctIndex)
                      /\ Sent(out', "questionResult", gameCode[c]) # {}
                      /\ Score(games'[gameCode[c]], p) = Score(games[gameCode[c]], p) + 1)

\* the second player has just given a wrong answer to the open question
\* of a room with two players
C16_WrongAnswerGiven ==
  /\ fired = WrongAnswer("s2")
  /\ Open("s2")
  /\ Len(games[gameCode["s2"]].players) = 2
  /\ \E iv \in intervals : iv.code = gameCode["s2"]

\* C17: no deferred callback ends the process: whatever the bank holds for
\* the room's grade level, sendNextQuestion returns.
C17_DrawNeverFaults ==
  ~(crashed /\ fired.kind \in {"socket", "code"})

\* C18: every player of a room is a connection that created the room or
\* joined it, and has not left it since.
C18_PlayersJoined ==
  \A code \in DOMAIN games :
    PlayerIds(games[code]) \subseteq obs[code].members

\* C19: a room with a live countdown is registered, started, without
\* winner, shows a question nobody resolved and has between 1 and 15
\* seconds left; the seconds left of every room are between 0 and 15.
C19_LiveTimerState ==
  /\ \A iv \in intervals :
       /\ iv.code \in DOMAIN games
       /\ games[iv.code].started
       /\ games[iv.code].winner = Null
       /\ games[iv.code].currentQuestion # NoQuestion
       /\ ~games[iv.code].questionAnswered
       /\ games[iv.code].timeRemaining \in 1..StartTime
  /\ \A code \in DOMAIN games : games[code].timeRemaining \in 0..StartTime

\* the countdown of a room with two players is live with one second left
C19_LastSecond ==
  \E iv \in intervals :
    /\ iv.code \in DOMAIN games
    /\ games[iv.code].timeRemaining = 1
    /\ Len(games[iv.code].players) = 2

\* a countdown reached zero
CountdownOver ==
  \E code \in DOMAIN games :
    /\ games[code].timeRemaining = 0
    /\ Sent(out, "timeUp", code) # {}

\* C20: every score is within 0..10, and while a room is started a step
\* other than playAgain changes the score of a player only by adding 1 to
\* the player whose correct answer it reports in questionResult.
C20_ScoresOnlyByAnswers ==
  /\ [](\A code \in DOMAIN games : \A i \in DOMAIN games[code].players :
          games[code].players[i].score \in 0..WinScore)
  /\ [][\A code \in (DOMAIN games) \cap (DOMAIN games') :
          (games[code].started /\ Sent(out', "gameReset", code) = {}) =>
            \A c \in PlayerIds(games[code]) \cap PlayerIds(games'[code]) :
              \/ Score(games'[code], c) = Score(games[code], c)
              \/ /\ Score(games'[code], c) = Score(games[code], c) + 1
                 /\ \E i \in Sent(out', "questionResult", code) :
                      out'[i].data.winnerId = c]_vars
====
